---------------------------- MODULE Spec2Model ----------------------------
(***************************************************************************)
(* A model of the go-microserv-test repository: five gin HTTP services     *)
(* (api-gateway, user-service, order-service, inventory-service,           *)
(* notification-service), the user_service.users table they share, and     *)
(* the requests clients send to the services that run.                     *)
(*                                                                         *)
(* A path is the sequence of its segments after the leading slash:         *)
(*   "/" is << >>, "/health" is <<"health">>, "/health/" is <<"health","">>*)
(* so a trailing slash is a last segment that is empty.                    *)
(*                                                                         *)
(* The router is gin.Default(): Logger and Recovery middleware,            *)
(* RedirectTrailingSlash on, RedirectFixedPath and HandleMethodNotAllowed  *)
(* off.  The user service's import of the database package is taken to     *)
(* resolve; database.Connect either succeeds or fails with the database.   *)
(***************************************************************************)
EXTENDS Naturals, Sequences, FiniteSets

\* Number of requests that can be in flight at the same time.
MaxReq == 2

VARIABLES
    phase,      \* per service: "stopped", "build_failed", "exited", "running", "crashed"
    routes,     \* per service: the route table filled by main's registrations
    dbUp,       \* whether PostgreSQL answers
    table,      \* user_service.users, a sequence of rows
    nextId,     \* the SERIAL sequence of users.id
    req         \* per slot: the request in flight, its handler position and response

vars == <<phase, routes, dbUp, table, nextId, req>>

---------------------------------------------------------------------------
(* The services and what their main functions register *)

Gateway == "api-gateway"
UserService == "user-service"
OrderService == "order-service"
InventoryService == "inventory-service"
NotificationService == "notification-service"

Services == {Gateway, UserService, OrderService, InventoryService, NotificationService}

PRoot == << >>
PHealth == <<"health">>
PHealthSlash == <<"health", "">>
PUsers == <<"users">>
PNope == <<"nope">>

\* The paths and methods clients try.
Paths == {PRoot, PHealth, PHealthSlash, PUsers, PNope}
Methods == {"GET", "POST"}

\* The route-registration methods gin's router offers (exported names only).
GinRouterMethods == {"GET", "POST", "PUT", "PATCH", "DELETE", "OPTIONS", "HEAD", "Any"}

\* The registration calls of each main, in source order: the method name
\* called on the router, the path and the handler.
GatewayRegs ==
    << [fn |-> "GET", path |-> PHealth, handler |-> "health"],
       [fn |-> "GET", path |-> PRoot, handler |-> "root"] >>

UserServiceRegs ==
    << [fn |-> "GET", path |-> PHealth, handler |-> "health"],
       [fn |-> "GET", path |-> PUsers, handler |-> "users"] >>

OrderServiceRegs ==
    << [fn |-> "get", path |-> PHealth, handler |-> "health"] >>

InventoryServiceRegs ==
    << [fn |-> "get", path |-> PHealth, handler |-> "health"] >>

NotificationServiceRegs ==
    << [fn |-> "get", path |-> PHealth, handler |-> "health"] >>

RegCalls(s) ==
    CASE s = Gateway -> GatewayRegs
      [] s = UserService -> UserServiceRegs
      [] s = OrderService -> OrderServiceRegs
      [] s = InventoryService -> InventoryServiceRegs
      [] s = NotificationService -> NotificationServiceRegs

\* A main builds only if every method it calls on the router exists.
Compiles(s) ==
    \A i \in 1..Len(RegCalls(s)) : RegCalls(s)[i].fn \in GinRouterMethods

\* Only the user service opens the database at startup.
NeedsDatabase(s) == s = UserService

\* The route table main leaves behind once router.Run is reached.
RegisteredRoutes(s) ==
    { [method |-> RegCalls(s)[i].fn,
       path |-> RegCalls(s)[i].path,
       handler |-> RegCalls(s)[i].handler] : i \in 1..Len(RegCalls(s)) }

---------------------------------------------------------------------------
(* gin's engine as gin.Default() configures it *)

RedirectTrailingSlash == TRUE
HandleMethodNotAllowed == FALSE

StatusOK == 200
StatusMovedPermanently == 301
StatusTemporaryRedirect == 307
StatusNotFound == 404
StatusMethodNotAllowed == 405
StatusInternalServerError == 500

\* The path with its trailing slash removed, or added when it has none.
ToggleSlash(p) ==
    IF Len(p) > 0 /\ p[Len(p)] = ""
    THEN SubSeq(p, 1, Len(p) - 1)
    ELSE Append(p, "")

\* The routes of one method's tree.
Tree(rt, m) == {e \in rt : e.method = m}

\* Resolve matching by prefix instead of the whole path: "/" then catches
\* every path of its method.
IsPrefix(a, b) == Len(a) <= Len(b) /\ SubSeq(b, 1, Len(a)) = a

ResolveByPrefix(rt, m, p) ==
    LET hit == {e \in Tree(rt, m) : IsPrefix(e.path, p)}
    IN  IF hit # {}
        THEN [kind |-> "handler",
              handler |-> (CHOOSE e \in hit :
                              \A f \in hit : Len(f.path) <= Len(e.path)).handler,
              code |-> StatusOK, location |-> {}]
        ELSE [kind |-> "error", handler |-> "none",
              code |-> StatusNotFound, location |-> {}]

\* handleHTTPRequest: the method's tree is searched for the exact path; a
\* miss whose trailing-slash twin is in the same tree is redirected; any
\* other miss is 405 only under HandleMethodNotAllowed, else 404.
Resolve(rt, m, p) ==
    LET hit == {e \in Tree(rt, m) : e.path = p}
        tsr == {e \in Tree(rt, m) : e.path = ToggleSlash(p)}
        other == {e \in rt : e.method # m /\ e.path = p}
    IN  IF hit # {}
        THEN [kind |-> "handler", handler |-> (CHOOSE e \in hit : TRUE).handler,
              code |-> StatusOK, location |-> {}]
        ELSE IF p # PRoot /\ tsr # {} /\ RedirectTrailingSlash
        THEN [kind |-> "redirect", handler |-> "none",
              code |-> IF m = "GET" THEN StatusMovedPermanently
                                    ELSE StatusTemporaryRedirect,
              location |-> {ToggleSlash(p)}]
        ELSE IF HandleMethodNotAllowed /\ other # {}
        THEN [kind |-> "error", handler |-> "none",
              code |-> StatusMethodNotAllowed, location |-> {}]
        ELSE [kind |-> "error", handler |-> "none",
              code |-> StatusNotFound, location |-> {}]

\* gin's response writer: the status defaults to 200 and is fixed once the
\* header is written; every Write appends to the body.
NewWriter == [status |-> StatusOK, written |-> FALSE, body |-> << >>, location |-> {}]

WriteHeader(w, code) ==
    IF code > 0 /\ w.status # code /\ ~w.written
    THEN [w EXCEPT !.status = code]
    ELSE w

WriteHeaderNow(w) == [w EXCEPT !.written = TRUE]

Write(w, data) == [WriteHeaderNow(w) EXCEPT !.body = Append(@, data)]

\* c.JSON(code, obj)
JSON(w, code, obj) == Write(WriteHeader(w, code), obj)

\* c.AbortWithStatus(code)
AbortWithStatus(w, code) == WriteHeaderNow(WriteHeader(w, code))

\* serveError for a request no route matches.
ServeError(w, code) ==
    Write(WriteHeader(w, code),
          [text |-> IF code = StatusNotFound THEN "404 page not found"
                                             ELSE "405 method not allowed"])

\* http.Redirect: the Location header, the status and, for GET, a short body.
Redirect(w, m, code, loc) ==
    LET h == [WriteHeader(w, code) EXCEPT !.location = loc]
    IN  IF m = "GET" THEN Write(h, [text |-> "Moved Permanently"])
                     ELSE WriteHeaderNow(h)

---------------------------------------------------------------------------
(* The users table and the handler's view of it *)

\* LIMIT of the handler's query.
QueryLimit == 10

NULL == "NULL"

\* The two rows of the seed script and a row inserted by other means.
SeedUsers ==
    << [email |-> "john.doe@example.com", username |-> "johndoe",
        password_hash |-> "hashed_password_1"],
       [email |-> "jane.doe@example.com", username |-> "janedoe",
        password_hash |-> "hashed_password_2"] >>

ExtraUsers ==
    { [email |-> "ann@example.com", username |-> "ann", password_hash |-> "h3"] }

Emails(t) == {t[i].email : i \in 1..Len(t)}

\* INSERT ... ON CONFLICT (email) DO NOTHING of one row: the SERIAL id is
\* drawn either way.
InsertRow(t, id, u) ==
    IF u.email \in Emails(t)
    THEN t
    ELSE Append(t, [id |-> id, email |-> u.email, username |-> u.username,
                    password_hash |-> u.password_hash])

\* SELECT id, email, username FROM user_service.users LIMIT 10
SelectUsers(t) ==
    LET n == IF Len(t) < QueryLimit THEN Len(t) ELSE QueryLimit
    IN  [i \in 1..n |-> [id |-> t[i].id, email |-> t[i].email, username |-> t[i].username]]

\* rows.Scan(&u.ID, &u.Email, &u.Username) fails on a NULL column.
ScanOk(row) == row.email # NULL /\ row.username # NULL

\* ScanUser with the Email field left out of the JSON (an unexported field).
ScanUserNoEmail(row) == [id |-> row.id, username |-> row.username]

\* The User struct filled by Scan, as json.Marshal writes it.
ScanUser(row) == [id |-> row.id, email |-> row.email, username |-> row.username]

---------------------------------------------------------------------------
(* State *)

IdleReq ==
    [svc |-> "none", method |-> "GET", path |-> PRoot, pc |-> "idle",
     w |-> NewWriter, rowsState |-> "none", rows |-> << >>, cursor |-> 0,
     users |-> << >>, panicked |-> FALSE]

Slots == 1..MaxReq

Init ==
    /\ phase = [s \in Services |-> "stopped"]
    /\ routes = [s \in Services |-> {}]
    /\ dbUp = TRUE
    /\ table = << >>
    /\ nextId = 1
    /\ req = [r \in Slots |-> IdleReq]

---------------------------------------------------------------------------
(* The environment: the database *)

\* The init script's INSERT of the seed rows.
SeedDatabase ==
    /\ dbUp
    /\ SeedUsers[1].email \notin Emails(table)
    /\ table' = InsertRow(InsertRow(table, nextId, SeedUsers[1]), nextId + 1, SeedUsers[2])
    /\ nextId' = nextId + 2
    /\ UNCHANGED <<phase, routes, dbUp, req>>

\* A row inserted by hand (psql).
InsertUser ==
    /\ dbUp
    /\ \E u \in ExtraUsers :
          /\ u.email \notin Emails(table)
          /\ table' = InsertRow(table, nextId, u)
    /\ nextId' = nextId + 1
    /\ UNCHANGED <<phase, routes, dbUp, req>>

DbFail ==
    /\ dbUp
    /\ dbUp' = FALSE
    /\ UNCHANGED <<phase, routes, table, nextId, req>>

DbRecover ==
    /\ ~dbUp
    /\ dbUp' = TRUE
    /\ UNCHANGED <<phase, routes, table, nextId, req>>

---------------------------------------------------------------------------
(* main of each service *)

\* go build and main up to router.Run: a main that does not build never
\* runs; the user service exits when database.Connect fails.
StartPhase(s) ==
    IF ~Compiles(s) THEN "build_failed"
    ELSE IF NeedsDatabase(s) /\ ~dbUp THEN "exited"
    ELSE "running"

\* docker-compose up -d: every service is built and started.
DockerUp ==
    /\ \A s \in Services : phase[s] = "stopped"
    /\ phase' = [s \in Services |-> StartPhase(s)]
    /\ routes' = [s \in Services |->
                    IF StartPhase(s) = "running" THEN RegisteredRoutes(s) ELSE {}]
    /\ UNCHANGED <<dbUp, table, nextId, req>>

---------------------------------------------------------------------------
(* A request through the engine *)

Running(s) == phase[s] = "running"

\* A client sends method m, path p to a running service; the request waits
\* in slot r for the engine to route it.
Send(r, s, m, p) ==
    /\ req[r].pc = "idle"
    /\ Running(s)
    /\ req' = [req EXCEPT ![r] = [IdleReq EXCEPT !.svc = s, !.method = m,
                                                  !.path = p, !.pc = "routing"]]
    /\ UNCHANGED <<phase, routes, dbUp, table, nextId>>

\* engine.handleHTTPRequest: the handler chain is entered, or the redirect or
\* the error is written.
Route(r) ==
    /\ req[r].pc = "routing"
    /\ Running(req[r].svc)
    /\ LET q == req[r]
           res == Resolve(routes[q.svc], q.method, q.path)
       IN  req' = [req EXCEPT ![r] =
                CASE res.kind = "handler" -> [q EXCEPT !.pc = res.handler]
                  [] res.kind = "redirect" ->
                        [q EXCEPT !.pc = "done",
                                  !.w = Redirect(q.w, q.method, res.code, res.location)]
                  [] OTHER ->
                        [q EXCEPT !.pc = "done", !.w = ServeError(q.w, res.code)]]
    /\ UNCHANGED <<phase, routes, dbUp, table, nextId>>

\* GET /health of every service.
HealthBody(s) == [status |-> "healthy", service |-> s]

Health(r) ==
    /\ req[r].pc = "health"
    /\ Running(req[r].svc)
    /\ req' = [req EXCEPT ![r].w = JSON(@, StatusOK, HealthBody(req[r].svc)),
                          ![r].pc = "done"]
    /\ UNCHANGED <<phase, routes, dbUp, table, nextId>>

\* GET / of the gateway.
RootBody == [message |-> "Hello! - API Gateway"]

Root(r) ==
    /\ req[r].pc = "root"
    /\ Running(req[r].svc)
    /\ req' = [req EXCEPT ![r].w = JSON(@, StatusOK, RootBody), ![r].pc = "done"]
    /\ UNCHANGED <<phase, routes, dbUp, table, nextId>>

\* The client has read the response; the slot is free again.
Recycle(r) ==
    /\ req[r].pc = "done"
    /\ req' = [req EXCEPT ![r] = IdleReq]
    /\ UNCHANGED <<phase, routes, dbUp, table, nextId>>

---------------------------------------------------------------------------
(* GET /users of the user service *)

\* db.Query and the error check after it.  On an error the 500 is written
\* and, there being no return, control falls through to the defer and the
\* loop with rows nil.
UsersQuery(r) ==
    /\ req[r].pc = "users"
    /\ Running(req[r].svc)
    /\ req' = [req EXCEPT ![r] =
            IF dbUp
            THEN [@ EXCEPT !.rowsState = "open", !.rows = SelectUsers(table),
                           !.pc = "next"]
            ELSE [@ EXCEPT !.rowsState = "nil",
                           !.w = JSON(@, StatusInternalServerError,
                                      [error |-> "query failed"]),
                           !.pc = "next"]]
    /\ UNCHANGED <<phase, routes, dbUp, table, nextId>>

\* One turn of the loop: rows.Next() on a nil *sql.Rows dereferences nil and
\* panics; on an open result set it yields the next row, which is appended
\* when Scan succeeds and skipped when it fails, or ends the loop.
UsersNext(r) ==
    /\ req[r].pc = "next"
    /\ Running(req[r].svc)
    /\ LET q == req[r] IN
       req' = [req EXCEPT ![r] =
            IF q.rowsState = "nil"
            THEN [q EXCEPT !.pc = "panic", !.panicked = TRUE]
            ELSE IF q.cursor < Len(q.rows)
            THEN [q EXCEPT !.cursor = @ + 1,
                           !.users = IF ScanOk(q.rows[q.cursor + 1])
                                     THEN Append(@, ScanUser(q.rows[q.cursor + 1]))
                                     ELSE @]
            ELSE [q EXCEPT !.pc = "respond"]]
    /\ UNCHANGED <<phase, routes, dbUp, table, nextId>>

\* c.JSON(200, {"users": users}), then the return runs the deferred
\* rows.Close().
UsersRespond(r) ==
    /\ req[r].pc = "respond"
    /\ Running(req[r].svc)
    /\ req' = [req EXCEPT ![r].w = JSON(@, StatusOK, [users |-> req[r].users]),
                          ![r].rowsState = "closed",
                          ![r].pc = "done"]
    /\ UNCHANGED <<phase, routes, dbUp, table, nextId>>

\* What a panic in a handler does to the service: gin.Default() installs
\* Recovery, which recovers it in the request's own goroutine and answers
\* c.AbortWithStatus(500); nothing outside the request changes.
\* (PanicOutcomeCrash: the panic is not recovered and takes the process down,
\* with every request the service had in flight.)
PanicOutcomeCrash(r) ==
    /\ phase' = [phase EXCEPT ![req[r].svc] = "crashed"]
    /\ req' = [q \in Slots |->
                 IF req[q].pc # "idle" /\ req[q].svc = req[r].svc
                 THEN [req[q] EXCEPT !.pc = "done"]
                 ELSE req[q]]

PanicOutcome(r) ==
    /\ req' = [req EXCEPT ![r].w = AbortWithStatus(@, StatusInternalServerError),
                          ![r].pc = "done"]
    /\ UNCHANGED phase

\* The panic unwinds the handler (the deferred rows.Close() on nil panics
\* again) and reaches the Recovery middleware.
Recover(r) ==
    /\ req[r].pc = "panic"
    /\ Running(req[r].svc)
    /\ PanicOutcome(r)
    /\ UNCHANGED <<routes, dbUp, table, nextId>>

---------------------------------------------------------------------------

Next ==
    \/ SeedDatabase
    \/ InsertUser
    \/ DbFail
    \/ DbRecover
    \/ DockerUp
    \/ \E r \in Slots, s \in Services, m \in Methods, p \in Paths : Send(r, s, m, p)
    \/ \E r \in Slots : Route(r)
    \/ \E r \in Slots : Health(r)
    \/ \E r \in Slots : Root(r)
    \/ \E r \in Slots : UsersQuery(r)
    \/ \E r \in Slots : UsersNext(r)
    \/ \E r \in Slots : UsersRespond(r)
    \/ \E r \in Slots : Recover(r)
    \/ \E r \in Slots : Recycle(r)

Spec == Init /\ [][Next]_vars

---------------------------------------------------------------------------
(* Properties *)

IsDone(q, s, m, p) == q.pc = "done" /\ q.svc = s /\ q.method = m /\ q.path = p

\* The registrations of main that name method m and path p.
RegsFor(s, m, p) ==
    {i \in 1..Len(RegCalls(s)) : RegCalls(s)[i].fn = m /\ RegCalls(s)[i].path = p}

RegsForPath(s, p) == {i \in 1..Len(RegCalls(s)) : RegCalls(s)[i].path = p}

\* The response a handler of the gateway writes.
GatewayBody(h) == IF h = "health" THEN HealthBody(Gateway) ELSE RootBody

UserFields == {"id", "email", "username"}

C2_AllExposeHealth ==
    \A s \in Services :
        /\ phase[s] # "build_failed"
        /\ phase[s] = "running" =>
              \E e \in routes[s] : e.method = "GET" /\ e.path = PHealth
        /\ \A r \in Slots :
              IsDone(req[r], s, "GET", PHealth) =>
                  /\ req[r].w.status = StatusOK
                  /\ req[r].w.body = <<HealthBody(s)>>

SlashTwins(s, m, p) ==
    {i \in 1..Len(RegCalls(s)) :
        /\ RegCalls(s)[i].fn = m
        /\ p # PRoot
        /\ \/ p = Append(RegCalls(s)[i].path, "")
           \/ RegCalls(s)[i].path = Append(p, "")}

C4_MethodNotAllowed ==
    \A r \in Slots :
        LET q == req[r] IN
        (/\ q.pc = "done" /\ q.svc = Gateway
         /\ RegsForPath(Gateway, q.path) # {}
         /\ RegsFor(Gateway, q.method, q.path) = {}) =>
            q.w.status = StatusMethodNotAllowed

\* C5: when a request has panicked in its handler, its service is still
\* running, no other request of the service has been cut short, and every
\* GET /health the service has answered is a normal 200.
C5_FaultIsolated ==
    \A r \in Slots :
        req[r].panicked =>
            /\ phase[req[r].svc] = "running"
            /\ \A o \in Slots \ {r} :
                  (req[o].svc = req[r].svc /\ req[o].pc = "done") =>
                      /\ req[o].w.written
                      /\ (req[o].method = "GET" /\ req[o].path = PHealth) =>
                            /\ req[o].w.status = StatusOK
                            /\ req[o].w.body = <<HealthBody(req[o].svc)>>

\* C5 witness: one request of the user service has panicked and been
\* recovered, and a GET /health of the same service has been answered 200.
C5_Witness ==
    \E r, o \in Slots :
        /\ r # o
        /\ req[r].panicked /\ req[r].pc = "done" /\ req[r].svc = UserService
        /\ IsDone(req[o], UserService, "GET", PHealth)
        /\ req[o].w.status = StatusOK

\* C6 (as claimed): the gateway's health read reports the endpoints' health
\* records: its body carries a status and an "endpoints" list.
C6_HealthReportsEndpoints ==
    \A r \in Slots :
        IsDone(req[r], Gateway, "GET", PHealth) =>
            /\ Len(req[r].w.body) = 1
            /\ "status" \in DOMAIN req[r].w.body[1]
            /\ "endpoints" \in DOMAIN req[r].w.body[1]

\* C10 (as claimed): when the query of GET /users fails, the handler writes
\* one response, 500 with the error, and stops: it never gets to iterate or
\* close the nil result set (which panics), and writes nothing more.
C10_StopsAfterQueryError ==
    \A r \in Slots :
        req[r].rowsState = "nil" =>
            /\ req[r].pc \notin {"panic", "respond"}
            /\ ~req[r].panicked
            /\ req[r].w.status = StatusInternalServerError
            /\ Len(req[r].w.body) = 1
            /\ DOMAIN req[r].w.body[1] = {"error"}

===========================================================================
